---- MODULE Spec2Model ----
(***************************************************************************)
(* A model of the whatnot-reviews scrapers: the network-JSON variant       *)
(* (fetch-whatnot-reviews.mjs), the anchor/block DOM variant (part_001)    *)
(* and the simple block DOM variant (part_000).                            *)
(*                                                                         *)
(* JavaScript strings are TLA+ strings, read character by character with   *)
(* Len, SubSeq and \o, so that regular expressions, template keys,         *)
(* parseFloat and clean are computed as the code computes them.  Numbers   *)
(* are integers counting tenths (4.8 is 48); NaN is the value NaN.         *)
(* U+2022 (the bullet of the summary line) cannot be written in a TLA+     *)
(* string and is written "@".                                              *)
(***************************************************************************)
EXTENDS Integers, Sequences, FiniteSets, TLC

VARIABLES
    variant,            \* which script runs: "net", "anchor" or "simple"
    limit,              \* LIMIT, the requested number of reviews
    pc,                 \* position of main()
    tries,              \* popup dismissals attempted so far
    popupFailed,        \* the popup dismissals that threw
    scrolls,            \* scroll iterations done
    resp,               \* per response: state of its page.on("response") callback
    networkCandidates,  \* the capture buffer
    tried,              \* the strategies run so far, with what each yielded
    extracted,          \* the records main() holds
    doc,                \* the document page.evaluate read
    output,             \* the written document's reviews, or NoOutput
    exitCode,           \* process exit code
    call,               \* the function called on its own, or "none"
    input,              \* its argument
    result              \* what it returned

vars == <<variant, limit, pc, tries, popupFailed, scrolls, resp,
          networkCandidates, tried, extracted, doc, output, exitCode,
          call, input, result>>

-----------------------------------------------------------------------------
(* Characters and strings *)

UPPER == "ABCDEFGHIJKLMNOPQRSTUVWXYZ"
LOWER == "abcdefghijklmnopqrstuvwxyz"
DIGITS == "0123456789"

At(s, i) == SubSeq(s, i, i)

CharsOf(s) == {At(s, i) : i \in 1..Len(s)}

DigitChars == CharsOf(DIGITS)

UpperChars == CharsOf(UPPER)

\* \w, which is also [a-z0-9_] under the i flag
WordChars == CharsOf(UPPER) \cup CharsOf(LOWER) \cup DigitChars \cup {"_"}

\* \s
SpaceChars == {" ", "\t", "\n", "\r"}

LowerChar(c) ==
    IF c \in UpperChars
    THEN At(LOWER, CHOOSE i \in 1..Len(UPPER) : At(UPPER, i) = c)
    ELSE c

\* F(e), with e evaluated once however often F reads it: the way a const
\* binding holds a value
Bind(e, F(_)) == CHOOSE r \in {F(v) : v \in {e}} : TRUE

\* the concatenation of pieces[lo..hi], by halves to keep the evaluation shallow
RECURSIVE Concat(_, _, _)
Concat(pieces, lo, hi) ==
    IF lo > hi THEN ""
    ELSE IF lo = hi THEN pieces[lo]
    ELSE LET mid == (lo + hi) \div 2
         IN  Concat(pieces, lo, mid) \o Concat(pieces, mid + 1, hi)

\* the same for sequences
RECURSIVE Flatten(_, _, _)
Flatten(pieces, lo, hi) ==
    IF lo > hi THEN <<>>
    ELSE IF lo = hi THEN pieces[lo]
    ELSE LET mid == (lo + hi) \div 2
         IN  Flatten(pieces, lo, mid) \o Flatten(pieces, mid + 1, hi)

\* the sequence f, laid out element by element
AsSeq(f) == <<>> \o f

toLowerCase(s) == Concat([i \in 1..Len(s) |-> LowerChar(At(s, i))], 1, Len(s))

IsSpaceAt(s, i) == i >= 1 /\ i <= Len(s) /\ At(s, i) \in SpaceChars

\* the first position from i on that holds no \s character (Len(s) + 1 if none)
SkipSpaces(s, i) ==
    CHOOSE j \in i..(Len(s) + 1) :
        /\ ~IsSpaceAt(s, j)
        /\ \A k \in i..(j - 1) : IsSpaceAt(s, k)

\* number of leading \s characters
LeadingSpaces(s) == SkipSpaces(s, 1) - 1

TrimLeft(s) == SubSeq(s, SkipSpaces(s, 1), Len(s))

\* number of trailing \s characters
TrailingSpaces(s) ==
    CHOOSE n \in 0..Len(s) :
        /\ ~IsSpaceAt(s, Len(s) - n)
        /\ \A k \in 0..(n - 1) : IsSpaceAt(s, Len(s) - k)

TrimRight(s) == SubSeq(s, 1, Len(s) - TrailingSpaces(s))

\* String.prototype.trim
trim(s) == Bind(s, LAMBDA v : Bind(TrimLeft(v), TrimRight))

\* s.replace(/\s+/g, " "): each run of \s characters becomes one space
CollapseSpaces(s) ==
    Concat([i \in 1..Len(s) |->
               IF ~IsSpaceAt(s, i) THEN At(s, i)
               ELSE IF IsSpaceAt(s, i - 1) THEN "" ELSE " "], 1, Len(s))

\* clean(s): (s || "").replace(/\s+/g, " ").trim()
clean(s) == Bind(s, LAMBDA v : trim(CollapseSpaces(v)))

\* s.startsWith(p) at position i
MatchAt(s, i, p) ==
    /\ i >= 1
    /\ i + Len(p) - 1 <= Len(s)
    /\ SubSeq(s, i, i + Len(p) - 1) = p

\* s.includes(p)
includes(s, p) == \E i \in 1..(Len(s) - Len(p) + 1) : MatchAt(s, i, p)

\* s.indexOf(p), 0-based, -1 when absent
indexOf(s, p) ==
    IF includes(s, p)
    THEN (CHOOSE i \in 1..Len(s) :
              /\ MatchAt(s, i, p)
              /\ \A j \in 1..(i - 1) : ~MatchAt(s, j, p)) - 1
    ELSE -1

\* s.split(" ").length
SplitCount(s) == Cardinality({i \in 1..Len(s) : At(s, i) = " "}) + 1

IsWordAt(s, i) == i >= 1 /\ i <= Len(s) /\ At(s, i) \in WordChars

IsDigitAt(s, i) == i >= 1 /\ i <= Len(s) /\ At(s, i) \in DigitChars

\* \b between position i-1 and i
BoundaryBefore(s, i) == IsWordAt(s, i - 1) # IsWordAt(s, i)

DigitValue(c) == (CHOOSE i \in 1..Len(DIGITS) : At(DIGITS, i) = c) - 1

-----------------------------------------------------------------------------
(* JavaScript values *)

NullV == [t |-> "null"]
NaN == [t |-> "nan"]
Num(n) == [t |-> "num", n |-> n]
Str(s) == [t |-> "str", s |-> s]
Arr(items) == [t |-> "arr", items |-> items]
Obj(kv) == [t |-> "obj", kv |-> kv]

MinOf(S) == CHOOSE i \in S : \A j \in S : i <= j

-----------------------------------------------------------------------------
(* Text probes shared by the page.evaluate bodies *)

\* /\b([0-5]\.\d)\b/ matching at position i
RatingAt(s, i) ==
    /\ i + 2 <= Len(s)
    /\ At(s, i) \in {"0", "1", "2", "3", "4", "5"}
    /\ ~IsWordAt(s, i - 1)
    /\ At(s, i + 1) = "."
    /\ IsDigitAt(s, i + 2)
    /\ ~IsWordAt(s, i + 3)

\* parseFloat of the three characters the rating pattern captured
RatingValue(s, i) == 10 * DigitValue(At(s, i)) + DigitValue(At(s, i + 2))

\* t.match(/\b([0-5]\.\d)\b/), then parseFloat(m[1]); null without a match
getRating(t) ==
    LET I == {i \in 1..Len(t) : RatingAt(t, i)}
    IN  IF I = {} THEN NullV ELSE Num(RatingValue(t, MinOf(I)))

\* /\d{1,2}\/\d{1,2}\/\d{4}\b/ matching at position i: the position after the
\* match, or 0
DateEndAt(s, i) ==
    LET Ok(a, b) ==
            /\ \A k \in 0..(a - 1) : IsDigitAt(s, i + k)
            /\ MatchAt(s, i + a, "/")
            /\ \A k \in 0..(b - 1) : IsDigitAt(s, i + a + 1 + k)
            /\ MatchAt(s, i + a + 1 + b, "/")
            /\ \A k \in 0..3 : IsDigitAt(s, i + a + b + 2 + k)
            /\ ~IsWordAt(s, i + a + b + 6)
        M == {<<a, b>> \in {1, 2} \X {1, 2} : Ok(a, b)}
    IN  IF M = {} THEN 0
        ELSE LET m == CHOOSE m \in M : TRUE IN i + m[1] + m[2] + 6

\* /\b\d{1,2}\/\d{1,2}\/\d{4}\b/.test(t)
hasDate(t) ==
    \E i \in 1..Len(t) : ~IsWordAt(t, i - 1) /\ DateEndAt(t, i) # 0

\* length of the run of \w characters starting at position i
WordRun(s, i) ==
    (CHOOSE j \in i..(Len(s) + 1) :
         /\ ~IsWordAt(s, j)
         /\ \A k \in i..(j - 1) : IsWordAt(s, k)) - i

\* t.match(/^\s*([a-z0-9_]{3,25})\b/i): m[1], or null
getReviewer(t) ==
    LET k == LeadingSpaces(t)
        n == WordRun(t, k + 1)
    IN  IF n >= 3 /\ n <= 25 THEN Str(SubSeq(t, k + 1, k + n)) ELSE NullV

\* t.match(/\b[a-z0-9_]{3,20}\b/i): m[0], or null
reviewerMatch(t) ==
    LET I == {i \in 1..Len(t) :
                 /\ ~IsWordAt(t, i - 1)
                 /\ WordRun(t, i) >= 3
                 /\ WordRun(t, i) <= 20}
    IN  IF I = {} THEN NullV
        ELSE LET i == MinOf(I) IN Str(SubSeq(t, i, i + WordRun(t, i) - 1))

\* /p1|p2|.../i.test(t)
TestAny(t, phrases) ==
    Bind(toLowerCase(t), LAMBDA l : \E p \in phrases : includes(l, p))

\* part_001: isNoise
isNoise(t) ==
    TestAny(t, {"following", "followers", "sold", "whatnot",
                "become a seller", "log in", "sign up"})

\* fetch-whatnot-reviews.mjs: the DOM fallback's noise test
isNoiseBasic(t) == TestAny(t, {"followers", "following", "sold"})

\* /see more/i.test(t)
hasSeeMore(t) == Bind(toLowerCase(t), LAMBDA l : includes(l, "see more"))

\* s.replace(/see more/gi, ""): two matches cannot overlap, so a character
\* goes exactly when some match covers it
RemoveSeeMore(s) ==
    Bind(toLowerCase(s), LAMBDA l :
        Concat([i \in 1..Len(s) |->
                   IF \E j \in (i - 7)..i : MatchAt(l, j, "see more")
                   THEN "" ELSE At(s, i)], 1, Len(s)))

\* body.replace(new RegExp("^" + reviewer + "\\s*", "i"), "")
StripReviewer(body, reviewer) ==
    IF MatchAt(toLowerCase(SubSeq(body, 1, MinOf({Len(body), Len(reviewer)}))),
               1, toLowerCase(reviewer))
    THEN TrimLeft(SubSeq(body, Len(reviewer) + 1, Len(body)))
    ELSE body

\* body.replace(/^\b\d{1,2}\/\d{1,2}\/\d{4}\b\s*/i, "")
StripDate(body) ==
    IF DateEndAt(body, 1) # 0
    THEN TrimLeft(SubSeq(body, DateEndAt(body, 1), Len(body)))
    ELSE body

\* body.replace(/^\b[0-5]\.\d\b\s*/i, "")
StripRating(body) ==
    IF RatingAt(body, 1)
    THEN TrimLeft(SubSeq(body, 4, Len(body)))
    ELSE body

BULLET == "@"

\* length of the run of digits starting at position i
DigitRun(s, i) ==
    (CHOOSE j \in i..(Len(s) + 1) :
         /\ ~IsDigitAt(s, j)
         /\ \A k \in i..(j - 1) : IsDigitAt(s, k)) - i

\* /reviews\)\s*<bullet>\s*\d+\s*sold/i.test(body)
isSummary(body) ==
    Bind(toLowerCase(body), LAMBDA l :
        \E i \in 1..Len(l) :
            /\ MatchAt(l, i, "reviews)")
            /\ LET j == SkipSpaces(l, i + 8)
               IN  /\ MatchAt(l, j, BULLET)
                   /\ LET k == SkipSpaces(l, j + 1)
                          d == DigitRun(l, k)
                      IN  /\ d >= 1
                          /\ \E e \in 1..d :
                                 MatchAt(l, SkipSpaces(l, k + e), "sold"))

-----------------------------------------------------------------------------
(* Numbers as text *)

RECURSIVE NatToString(_)
NatToString(n) ==
    IF n < 10 THEN At(DIGITS, n + 1)
    ELSE NatToString(n \div 10) \o At(DIGITS, (n % 10) + 1)

\* String(x) for a number held in tenths: 48 is "4.8", 50 is "5", -5 is "-0.5"
NumberToString(n) ==
    LET a == IF n < 0 THEN -n ELSE n
        whole == NatToString(a \div 10)
        frac == IF a % 10 = 0 THEN "" ELSE "." \o At(DIGITS, (a % 10) + 1)
    IN  (IF n < 0 THEN "-" ELSE "") \o whole \o frac

\* `${v}` for the values a rating can hold
TemplateString(v) ==
    CASE v.t = "num" -> NumberToString(v.n)
      [] v.t = "str" -> v.s
      [] v.t = "nan" -> "NaN"
      [] v.t = "null" -> "null"
      [] OTHER -> "[object Object]"

-----------------------------------------------------------------------------
(* Records and deduplication *)

Review(reviewer, rating, text) ==
    [reviewer |-> reviewer, rating |-> rating, text |-> text]

\* `${r.reviewer}|${r.rating}|${r.text}`
Key(r) == r.reviewer \o "|" \o TemplateString(r.rating) \o "|" \o r.text

\* a slice that is forgotten
sliceNone(xs, n) == xs

\* xs.slice(0, n)
slice(xs, n) == SubSeq(xs, 1, IF n < Len(xs) THEN n ELSE Len(xs))

\* what one strategy yielded: the candidates it located, the records it
\* collected from them, and the records left after deduplication
Attempt(strategy, candidates, collected, records) ==
    [strategy |-> strategy, candidates |-> candidates,
     collected |-> collected, records |-> records]

\* fetch-whatnot-reviews.mjs: extracted.filter(...) with the seen set: a
\* record stays when no earlier record has its key
dedupe(xs) ==
    Bind(xs, LAMBDA v :
    Bind(AsSeq([i \in 1..Len(v) |-> Key(v[i])]), LAMBDA keys :
        Flatten([i \in 1..Len(v) |->
                    IF \E j \in 1..(i - 1) : keys[j] = keys[i]
                    THEN <<>> ELSE <<v[i]>>], 1, Len(v))))

\* part_000, part_001: the uniq loop, which stops once uniq holds limit records
RECURSIVE UniqFrom(_, _, _, _, _)
UniqFrom(out, i, seen, uniq, lim) ==
    IF i > Len(out) THEN uniq
    ELSE Bind(Key(out[i]), LAMBDA key :
             IF key \in seen
             THEN UniqFrom(out, i + 1, seen, uniq, lim)
             ELSE Bind(Append(uniq, out[i]), LAMBDA u :
                      IF Len(u) >= lim THEN u
                      ELSE Bind(seen \cup {key}, LAMBDA s :
                                   UniqFrom(out, i + 1, s, u, lim))))

dedupeCapped(out, lim) == Bind(out, LAMBDA v : UniqFrom(v, 1, {}, <<>>, lim))

-----------------------------------------------------------------------------
(* The document: body > div (the list) > div (one per card); a card may end *)
(* with a "See more" button.  A card is [text, btn].                        *)

\* el.textContent of a card
RawText(c) == c.text \o (IF c.btn THEN " See more" ELSE "")

CardText(c) == clean(RawText(c))

RECURSIVE JoinCards(_)
JoinCards(d) ==
    IF d = <<>> THEN ""
    ELSE RawText(Head(d)) \o "\n" \o JoinCards(Tail(d))

\* clean(el.textContent) of the list div, and of body
ListText(d) == clean(JoinCards(d))

\* document.querySelectorAll("div"), as cleaned texts in document order: the
\* list, then the cards
DivTexts(d) == <<ListText(d)>> \o [i \in 1..Len(d) |-> CardText(d[i])]

\* el.parentElement chain of card i's button, as cleaned texts: card, list,
\* body, html
AncestorTexts(divs, i) == <<divs[i + 1], divs[1], divs[1], divs[1]>>

-----------------------------------------------------------------------------
(* part_001: page.evaluate *)

\* the test an ancestor must pass to become a candidate card
plausibleCard(t) ==
    /\ Len(t) > 40
    /\ Len(t) < 900
    /\ getRating(t) # NullV
    /\ ~isNoise(t)

\* the climb from a "See more" element: the first of at most 10 ancestors that
\* passes, as a sequence of at most one text
RECURSIVE Climb(_, _)
Climb(chain, k) ==
    IF k > Len(chain) \/ k > 10 THEN <<>>
    ELSE IF plausibleCard(chain[k]) THEN <<chain[k]>>
    ELSE Climb(chain, k + 1)

\* step 1: the loop over the elements whose text matches /see more/i
RECURSIVE AnchorLoop(_, _, _)
AnchorLoop(d, divs, i) ==
    IF i > Len(d) THEN <<>>
    ELSE IF ~d[i].btn THEN AnchorLoop(d, divs, i + 1)
    ELSE Bind(AncestorTexts(divs, i), LAMBDA chain : Climb(chain, 1))
             \o AnchorLoop(d, divs, i + 1)

anchorCards(d, divs) == AnchorLoop(d, divs, 1)

\* step 2: the block fallback's loop over the divs of plausible length
RECURSIVE BlockLoop(_, _, _)
BlockLoop(blocks, i, cands) ==
    IF i > Len(blocks) THEN cands
    ELSE IF getRating(blocks[i]) = NullV \/ isNoise(blocks[i])
         THEN BlockLoop(blocks, i + 1, cands)
         ELSE Bind(IF hasDate(blocks[i]) \/ hasSeeMore(blocks[i])
                   THEN Append(cands, blocks[i]) ELSE cands, LAMBDA c :
                  IF Len(c) > 60 THEN c ELSE BlockLoop(blocks, i + 1, c))

InWindow650(t) == Len(t) > 40 /\ Len(t) < 650

blockCards(divs) == BlockLoop(SelectSeq(divs, InWindow650), 1, <<>>)

\* step 3, the body of a card: "see more", the reviewer, a date and then a
\* rating are removed from the front, each followed by a trim
cardBody(raw, reviewer) ==
    Bind(trim(RemoveSeeMore(raw)), LAMBDA b0 :
    Bind(trim(StripReviewer(b0, reviewer)), LAMBDA b1 :
    Bind(trim(StripDate(b1)), LAMBDA b2 :
        trim(StripRating(b2)))))

\* step 3, one card: the record parsed from its text, or null when skipped
parseCard(raw) ==
    IF isNoise(raw) THEN NullV
    ELSE Bind(getRating(raw), LAMBDA rating :
         Bind(getReviewer(raw), LAMBDA reviewer :
             IF rating = NullV \/ reviewer = NullV THEN NullV
             ELSE Bind(cardBody(raw, reviewer.s), LAMBDA body :
                      IF Len(body) < 10 \/ isSummary(body) THEN NullV
                      ELSE Review(reviewer.s, rating, body))))

\* step 3: the loop, which stops once out holds limit * 3 records
RECURSIVE ParseLoop(_, _, _, _)
ParseLoop(cards, i, out, lim) ==
    IF i > Len(cards) THEN out
    ELSE Bind(parseCard(cards[i]), LAMBDA r :
             IF r = NullV THEN ParseLoop(cards, i + 1, out, lim)
             ELSE Bind(Append(out, r), LAMBDA o :
                      IF Len(o) >= lim * 3 THEN o
                      ELSE ParseLoop(cards, i + 1, o, lim)))

\* the guard of step 2, inverted
anchorsFound(anchors) == Len(anchors) > 0

\* the guard of step 2: candidateCards.length === 0
needsBlockScan(anchors) == Len(anchors) = 0

\* the whole callback: the strategies it ran and the records it returned
evaluateAnchor(d, lim) ==
    Bind(DivTexts(d), LAMBDA divs :
    Bind(anchorCards(d, divs), LAMBDA anchors :
    Bind(IF needsBlockScan(anchors) THEN blockCards(divs) ELSE anchors,
         LAMBDA cards :
    Bind(ParseLoop(cards, 1, <<>>, lim), LAMBDA out :
    Bind(slice(dedupeCapped(out, lim), lim), LAMBDA uniq :
        [tried |-> IF needsBlockScan(anchors)
                   THEN <<Attempt("anchor", 0, 0, 0),
                          Attempt("block", Len(cards), Len(out), Len(uniq))>>
                   ELSE <<Attempt("anchor", Len(cards), Len(out), Len(uniq))>>,
         reviews |-> uniq])))))

-----------------------------------------------------------------------------
(* fetch-whatnot-reviews.mjs: the DOM fallback's page.evaluate *)

InWindow500(t) == Len(t) > 40 /\ Len(t) < 500

\* the body of a block: "see more" and the reviewer are removed
basicBody(t, reviewer) ==
    Bind(trim(RemoveSeeMore(t)), LAMBDA b0 : trim(StripReviewer(b0, reviewer)))

\* one block: the record, or null when skipped
parseBasic(t) ==
    IF isNoiseBasic(t) THEN NullV
    ELSE Bind(getRating(t), LAMBDA ratingMatch :
         Bind(getReviewer(t), LAMBDA userMatch :
             IF ratingMatch = NullV \/ userMatch = NullV THEN NullV
             ELSE Bind(basicBody(t, userMatch.s), LAMBDA body :
                      IF Len(body) < 10 THEN NullV
                      ELSE Review(userMatch.s, ratingMatch, body))))

RECURSIVE BasicLoop(_, _, _, _)
BasicLoop(blocks, i, out, lim) ==
    IF i > Len(blocks) THEN out
    ELSE Bind(parseBasic(blocks[i]), LAMBDA r :
             IF r = NullV THEN BasicLoop(blocks, i + 1, out, lim)
             ELSE Bind(Append(out, r), LAMBDA o :
                      IF Len(o) >= lim THEN o
                      ELSE BasicLoop(blocks, i + 1, o, lim)))

evaluateBasic(d, lim) ==
    Bind(SelectSeq(DivTexts(d), InWindow500), LAMBDA blocks :
    Bind(BasicLoop(blocks, 1, <<>>, lim), LAMBDA out :
    Bind(slice(out, lim), LAMBDA top :
        [tried |-> <<Attempt("block", Len(blocks), Len(out), Len(top))>>,
         reviews |-> top])))

-----------------------------------------------------------------------------
(* part_000: page.evaluate *)

\* /reviews\s*\(\d+\)/i.test(t)
hasReviewCount(t) ==
    Bind(toLowerCase(t), LAMBDA l :
        \E i \in 1..Len(l) :
            /\ MatchAt(l, i, "reviews")
            /\ LET j == SkipSpaces(l, i + 7)
               IN  /\ MatchAt(l, j, "(")
                   /\ DigitRun(l, j + 1) >= 1
                   /\ MatchAt(l, j + 1 + DigitRun(l, j + 1), ")"))

\* root.querySelectorAll("div") for the root the first loop picks: the first
\* section or div whose text holds a review count, else body
rootDivTexts(divs) ==
    IF \A i \in 1..Len(divs) : ~hasReviewCount(divs[i]) THEN divs
    ELSE IF hasReviewCount(divs[1]) THEN Tail(divs)
    ELSE <<>>

InWindow900(t) == Len(t) > 20 /\ Len(t) < 900

\* the text of a block: what precedes "see more", when that is not the start
simpleText(t) ==
    Bind(indexOf(toLowerCase(t), "see more"), LAMBDA idx :
        IF idx > 0 THEN SubSeq(t, 1, idx) ELSE t)

\* one block: the record, or null when skipped
parseSimple(t) ==
    Bind(getRating(t), LAMBDA ratingMatch :
    Bind(reviewerMatch(t), LAMBDA reviewer :
        IF ratingMatch = NullV \/ reviewer = NullV THEN NullV
        ELSE Bind(simpleText(t), LAMBDA text :
                 IF SplitCount(text) < 5 THEN NullV
                 ELSE Review(reviewer.s, ratingMatch, text))))

RECURSIVE SimpleLoop(_, _, _, _)
SimpleLoop(blocks, i, out, lim) ==
    IF i > Len(blocks) THEN out
    ELSE Bind(parseSimple(blocks[i]), LAMBDA r :
             IF r = NullV THEN SimpleLoop(blocks, i + 1, out, lim)
             ELSE Bind(Append(out, r), LAMBDA o :
                      IF Len(o) >= lim * 3 THEN o
                      ELSE SimpleLoop(blocks, i + 1, o, lim)))

evaluateSimple(d, lim) ==
    Bind(SelectSeq(rootDivTexts(DivTexts(d)), InWindow900), LAMBDA blocks :
    Bind(SimpleLoop(blocks, 1, <<>>, lim), LAMBDA out :
    Bind(slice(dedupeCapped(out, lim), lim), LAMBDA uniq :
        [tried |-> <<Attempt("block", Len(blocks), Len(out), Len(uniq))>>,
         reviews |-> uniq])))

-----------------------------------------------------------------------------
(* fetch-whatnot-reviews.mjs: JSON values, the scanner and the normalizer.  *)
(* An object is Obj(kv), kv the sequence of its [k, v] properties in        *)
(* insertion order.                                                         *)

Undefined == [t |-> "undefined"]

\* the truthiness test of !node and of x && ...
Falsy(x) ==
    \/ x.t \in {"null", "undefined", "nan"}
    \/ x.t = "num" /\ x.n = 0
    \/ x.t = "str" /\ x.s = ""

isObject(x) == x.t = "obj"

\* Object.keys(o)
Keys(o) == [i \in 1..Len(o.kv) |-> o.kv[i].k]

\* Object.values(o)
Values(o) == [i \in 1..Len(o.kv) |-> o.kv[i].v]

\* o[k]
Prop(o, k) ==
    IF o.t = "obj" /\ \E i \in 1..Len(o.kv) : o.kv[i].k = k
    THEN o.kv[CHOOSE i \in 1..Len(o.kv) : o.kv[i].k = k].v
    ELSE Undefined

\* a user test that knows the four exact names only
hasUserKeyExact(keys) == keys \cap {"username", "reviewer", "buyer", "user"} # {}

\* the three key tests of the scanner, on the lower-cased keys of an item
hasRatingKey(keys) ==
    \/ keys \cap {"rating", "stars", "score"} # {}
    \/ \E k \in keys : includes(k, "rating")

hasTextKey(keys) ==
    \/ keys \cap {"text", "message", "comment", "review"} # {}
    \/ \E k \in keys :
           includes(k, "comment") \/ includes(k, "message") \/ includes(k, "text")

hasUserKey(keys) ==
    \/ keys \cap {"username", "reviewer", "buyer", "user"} # {}
    \/ \E k \in keys : includes(k, "user") \/ includes(k, "buyer")

\* the test an array element passes to be pushed to maybe
reviewLike(item) ==
    /\ isObject(item)
    /\ LET keys == {toLowerCase(item.kv[i].k) : i \in 1..Len(item.kv)}
       IN  hasRatingKey(keys) /\ hasTextKey(keys) /\ hasUserKey(keys)

\* what findReviewItemsDeep(node, found) pushes to found: for an array its
\* review-like elements, then what each element pushes; for an object what
\* each value pushes
RECURSIVE Pushed(_)
Pushed(node) ==
    IF Falsy(node) THEN <<>>
    ELSE IF node.t = "arr"
         THEN SelectSeq(node.items, reviewLike)
                  \o Flatten([i \in 1..Len(node.items) |-> Pushed(node.items[i])],
                             1, Len(node.items))
    ELSE IF isObject(node)
         THEN Flatten([i \in 1..Len(node.kv) |-> Pushed(Values(node)[i])],
                      1, Len(node.kv))
    ELSE <<>>

findReviewItemsDeep(node, found) == found \o Pushed(node)

\* get(obj, keys): the first obj[k] that is neither null nor undefined
get(obj, keys) ==
    LET Has(i) == Prop(obj, keys[i]).t \notin {"null", "undefined"}
        I == {i \in 1..Len(keys) : Has(i)}
    IN  IF I = {} THEN NullV ELSE Prop(obj, keys[MinOf(I)])

\* a ?? b
Coalesce(a, b) == IF a.t \in {"null", "undefined"} THEN b ELSE a

\* parseFloat(s), for texts with at most one fractional digit: leading \s, a
\* sign, digits, a point and a digit; NaN when no number starts the text
parseFloat(s) ==
    LET a == SkipSpaces(s, 1)
        neg == MatchAt(s, a, "-")
        b == IF neg \/ MatchAt(s, a, "+") THEN a + 1 ELSE a
        w == DigitRun(s, b)
        RECURSIVE Whole(_, _)
        Whole(i, acc) ==
            IF i >= b + w THEN acc
            ELSE Whole(i + 1, 10 * acc + DigitValue(At(s, i)))
        hasFrac == MatchAt(s, b + w, ".") /\ IsDigitAt(s, b + w + 1)
        tenths == 10 * Whole(b, 0)
                    + (IF hasFrac THEN DigitValue(At(s, b + w + 1)) ELSE 0)
    IN  IF w = 0 /\ ~hasFrac THEN NaN
        ELSE Num(IF neg THEN -tenths ELSE tenths)

normalizeReview(item) ==
    LET r0 == Coalesce(get(item, <<"rating", "stars", "score">>),
                       get(item, <<"starRating", "star_rating", "reviewRating">>))
        r1 == IF r0.t = "str" THEN parseFloat(r0.s) ELSE r0
        rating == IF r1.t # "num" THEN NullV ELSE r1
        Nested(k, keys) ==
            IF isObject(Prop(item, k)) THEN get(Prop(item, k), keys) ELSE NullV
        names == <<"username", "name", "handle">>
        reviewer ==
            Coalesce(Coalesce(Coalesce(get(item, <<"reviewer", "username">>),
                                       Nested("user", names)),
                              Nested("buyer", names)),
                     Nested("reviewer", names))
        text ==
            Coalesce(Coalesce(get(item, <<"text", "message", "comment", "review">>),
                              get(item, <<"body", "content">>)),
                     Nested("feedback", <<"text", "message", "comment">>))
    IN  Review(clean(IF reviewer.t = "str" THEN reviewer.s ELSE ""),
               rating,
               clean(IF text.t = "str" THEN text.s ELSE ""))

\* /followers|following|sold|reviews\s*\(/i.test(text)
isNoiseText(text) ==
    Bind(toLowerCase(text), LAMBDA l :
        \/ \E p \in {"followers", "following", "sold"} : includes(l, p)
        \/ \E i \in 1..Len(l) :
               MatchAt(l, i, "reviews") /\ MatchAt(l, SkipSpaces(l, i + 7), "("))

\* the gate of the scan loop: the record is pushed
gated(r) ==
    /\ r.reviewer # ""
    /\ r.text # ""
    /\ r.rating # NullV
    /\ ~isNoiseText(r.text)

NetCap == 50

\* the inner loop over one payload's items: the gated records are pushed
\* until extracted holds more than 50
ItemLoop(items, ex) ==
    Bind(SelectSeq(AsSeq([i \in 1..Len(items) |-> normalizeReview(items[i])]),
                   gated), LAMBDA rs :
        ex \o SubSeq(rs, 1, MinOf({Len(rs), NetCap + 1 - Len(ex)})))

\* the outer loop over networkCandidates
RECURSIVE ScanLoop(_, _, _)
ScanLoop(cands, i, ex) ==
    IF i > Len(cands) THEN ex
    ELSE Bind(findReviewItemsDeep(cands[i], <<>>), LAMBDA items :
         Bind(ItemLoop(items, ex), LAMBDA e :
             IF Len(e) > NetCap THEN e ELSE ScanLoop(cands, i + 1, e)))


\* steps 1 and "Deduplicate" of main(): the scan loop, then the filter
scanNetwork(cands) ==
    Bind(ScanLoop(cands, 1, <<>>), LAMBDA ex :
    Bind(dedupe(ex), LAMBDA uniq :
        [tried |-> <<Attempt("network", Len(cands), Len(ex), Len(uniq))>>,
         reviews |-> uniq]))

\* reviews.map(...) of the payload: what the output document holds
outputReviews(reviews) ==
    [i \in 1..Len(reviews) |->
        Review(clean(reviews[i].reviewer),
               IF reviews[i].rating.t = "num" THEN reviews[i].rating ELSE Num(50),
               clean(reviews[i].text))]

-----------------------------------------------------------------------------
(* Bounds and inputs *)

LIMIT == 6
MaxLimit == 1
MaxCards == 2
MaxResponses == 2
MaxRecords == 3

Variants == {"net", "anchor", "simple"}

\* the limits a run is given: the small ones, which truncate, and LIMIT
Limits == (0..MaxLimit) \cup {LIMIT}

\* number of scroll iterations of each script
ScrollCount(v) == IF v = "simple" THEN 4 ELSE 6

PopupTries == 3

Card(text, btn) == [text |-> text, btn |-> btn]

CardBob ==
    Card("bob_the_builder 4.8 11/11/2025 Fast shipment and great packaging", TRUE)
CardAlice ==
    Card("alice99 11/12/2025 5.0 Great seller, fast shipping and nice cards!", TRUE)
CardStars ==
    Card("** 4.7 11/10/2025 Card arrived quickly and well protected thanks", TRUE)
CardDana ==
    Card("dana_k 11/09/2025 4.5 Nice seller, quick delivery, would buy again", FALSE)
CardSummary ==
    Card("collectingfever 4.9 (28 Reviews) @ 251 Sold 1,204 followers today", FALSE)
CardSite ==
    Card("carl_77 5.9 10/10/2025 Bought on whatnot app, smooth and easy deal", FALSE)

AllCards == {CardBob, CardAlice, CardStars, CardDana, CardSummary, CardSite}

SeqsUpTo(S, n) == UNION {[1..k -> S] : k \in 0..n}

\* three blocks matching the anchor pattern, the third a copy of the first
ExampleDoc == <<CardBob, CardAlice, CardBob>>

\* the documents page.evaluate may find
AllDocs == SeqsUpTo(AllCards, MaxCards) \cup {ExampleDoc}

\* the documents of the full runs
RunDocs == {<<>>, ExampleDoc}

Prop2(k, v) == [k |-> k, v |-> v]

ItemAlice ==
    Obj(<<Prop2("username", Str("alice99")), Prop2("stars", Str("4.7")),
          Prop2("comment", Str("Great seller, fast shipping!"))>>)
ItemBob ==
    Obj(<<Prop2("user", Obj(<<Prop2("name", Str("bob_the_builder"))>>)),
          Prop2("rating", Num(48)), Prop2("text", Str("Fast  shipment"))>>)
ItemOdd ==
    Obj(<<Prop2("username", Str("al")), Prop2("rating", Num(95)),
          Prop2("comment", Str("ok"))>>)

\* review number i of a long list
ItemNumbered(i) ==
    Obj(<<Prop2("username", Str("user_" \o NatToString(i))),
          Prop2("rating", Num(50)),
          Prop2("text", Str("Great item number " \o NatToString(i)))>>)

PayloadReviews == Obj(<<Prop2("data", Arr(<<ItemAlice, ItemBob, ItemAlice>>))>>)
PayloadOdd == Arr(<<ItemOdd>>)
PayloadLong == Arr([i \in 1..(NetCap + 5) |-> ItemNumbered(i)])

\* the capture buffers the scan may find
ExtractBuffers ==
    SeqsUpTo({PayloadReviews, PayloadOdd}, MaxResponses) \cup {<<PayloadLong>>}

\* the bodies res.json() resolves to in the full runs
RunPayloads == {Obj(<<>>), PayloadReviews}

\* records handed to the deduplication
RecordPool ==
    { Review("alice99", Num(47), "Great seller"),
      Review("alice99", Num(48), "Great seller"),
      Review("a|5", Num(50), "x"),
      Review("a", Num(50), "5|x") }

DedupeInputs == SeqsUpTo(RecordPool, MaxRecords)

\* items handed to normalizeReview: every choice of a top-level reviewer, a
\* top-level username and user and buyer sub-objects
Maybe(k, vs) == {<<>>} \cup {<<Prop2(k, v)>> : v \in vs}

NormalizeInputs ==
    { Obj(r \o u \o s \o b \o <<Prop2("stars", Str("4.7")),
                               Prop2("comment", Str("Great seller, fast shipping!"))>>) :
        r \in Maybe("reviewer", {Str(" top  one "), Num(7),
                                 Obj(<<Prop2("username", Str("x"))>>)}),
        u \in Maybe("username", {Str("alice99")}),
        s \in Maybe("user", {Obj(<<Prop2("name", Str("bob  b"))>>)}),
        b \in Maybe("buyer", {Obj(<<Prop2("handle", Str("carl"))>>), Str("dan")}) }

\* array elements with one key of each kind
ScanItems ==
    { Obj(<<Prop2(rk, Num(48)), Prop2(tk, Str("Nice")), Prop2(uk, Str("u1"))>>) :
        rk \in {"rating", "Stars", "avgRating", "totalScore"},
        tk \in {"text", "commentText", "reviewBody"},
        uk \in {"user", "buyerId", "reviewerName"} }

\* payload trees around an item
ScanInputs ==
    {Arr(<<>>), Obj(<<>>), NullV}
    \cup {Arr(<<x>>) : x \in ScanItems}
    \cup {Obj(<<Prop2("data", Obj(<<Prop2("list", Arr(<<Num(1), x, Str("s")>>))>>))>>) :
             x \in ScanItems}
    \cup {Obj(<<Prop2("review", x)>>) : x \in ScanItems}
    \cup {Arr(<<Obj(<<Prop2("id", Num(10)), Prop2("replies", Arr(<<x, x>>))>>)>>) :
             x \in ScanItems}

-----------------------------------------------------------------------------
(* main() and the response callbacks *)

NoOutput == [written |-> FALSE, reviews |-> <<>>]

Init ==
    /\ variant \in Variants
    /\ limit = LIMIT
    /\ pc = "goto"
    /\ tries = 0
    /\ popupFailed = {}
    /\ scrolls = 0
    /\ resp = [r \in 1..MaxResponses |-> "idle"]
    /\ networkCandidates = <<>>
    /\ tried = <<>>
    /\ extracted = <<>>
    /\ doc = <<>>
    /\ output = NoOutput
    /\ exitCode = 0
    /\ call = "none"
    /\ input = NullV
    /\ result = NullV

fnVars == <<call, input, result>>
mainVars == <<variant, limit, pc, tries, popupFailed, scrolls, tried,
              extracted, doc, output, exitCode>>

\* page.goto resolves; main() goes on to waitForTimeout(1500)
Goto ==
    /\ pc = "goto"
    /\ pc' = "wait1"
    /\ UNCHANGED <<variant, limit, tries, popupFailed, scrolls, resp,
                   networkCandidates, tried, extracted, doc, output, exitCode,
                   fnVars>>

\* what a rejected page.goto leaves: [pc, exitCode]: main() rejects, and
\* main().catch logs and exits with 1
AfterGotoFails == [pc |-> "failed", exitCode |-> 1]

GotoFails ==
    /\ pc = "goto"
    /\ pc' = AfterGotoFails.pc
    /\ exitCode' = AfterGotoFails.exitCode
    /\ UNCHANGED <<variant, limit, tries, popupFailed, scrolls, resp,
                   networkCandidates, tried, extracted, doc, output, fnVars>>

\* the first waitForTimeout resolves; dismissPopups starts
Wait1 ==
    /\ pc = "wait1"
    /\ pc' = "popups"
    /\ UNCHANGED <<variant, limit, tries, popupFailed, scrolls, resp,
                   networkCandidates, tried, extracted, doc, output, exitCode,
                   fnVars>>

\* where main() goes after popup attempt n
AfterTry(n) == IF n = PopupTries THEN "scroll" ELSE "popups"

\* one popup attempt: the button is absent, or is clicked
DismissPopup ==
    /\ pc = "popups"
    /\ tries' = tries + 1
    /\ pc' = AfterTry(tries + 1)
    /\ UNCHANGED <<variant, limit, popupFailed, scrolls, resp,
                   networkCandidates, tried, extracted, doc, output, exitCode,
                   fnVars>>

\* a popup attempt whose error escapes to main().catch
ThrowEscapes(n) == [pc |-> "failed", exitCode |-> 1]

\* what a throwing popup attempt n leaves: [pc, exitCode]: the catch swallows
\* the error and the loop goes on
AfterThrow(n) == [pc |-> AfterTry(n), exitCode |-> 0]

\* one popup attempt: count() or click() throws
DismissPopupThrows ==
    /\ pc = "popups"
    /\ tries' = tries + 1
    /\ popupFailed' = popupFailed \cup {tries + 1}
    /\ pc' = AfterThrow(tries + 1).pc
    /\ exitCode' = AfterThrow(tries + 1).exitCode
    /\ UNCHANGED <<variant, limit, scrolls, resp, networkCandidates, tried,
                   extracted, doc, output, fnVars>>

\* one iteration of the scroll loop: mouse.wheel, waitForTimeout(900)
Scroll ==
    /\ pc = "scroll"
    /\ scrolls' = scrolls + 1
    /\ pc' = IF scrolls + 1 < ScrollCount(variant) THEN "scroll"
             ELSE IF variant = "net" THEN "wait2" ELSE "evaluate"
    /\ UNCHANGED <<variant, limit, tries, popupFailed, resp,
                   networkCandidates, tried, extracted, doc, output, exitCode,
                   fnVars>>

\* net: the second waitForTimeout resolves; the scan loop and the
\* deduplication run to the next await
ScanNetwork ==
    /\ pc = "wait2"
    /\ \E e \in {scanNetwork(networkCandidates)} :
         /\ extracted' = e.reviews
         /\ tried' = e.tried
         /\ pc' = IF Len(e.reviews) = 0 THEN "evaluate" ELSE "close"
    /\ UNCHANGED <<variant, limit, tries, popupFailed, scrolls, resp,
                   networkCandidates, doc, output, exitCode, fnVars>>

\* the callback page.evaluate runs in script v
evaluateDom(v, d, lim) ==
    CASE v = "anchor" -> evaluateAnchor(d, lim)
      [] v = "simple" -> evaluateSimple(d, lim)
      [] OTHER -> evaluateBasic(d, lim)

\* page.evaluate resolves with what the callback returned for the document
Evaluate(D) ==
    /\ pc = "evaluate"
    /\ \E d \in D :
         /\ doc' = d
         /\ \E e \in {evaluateDom(variant, d, limit)} :
              /\ extracted' = e.reviews
              /\ tried' = tried \o e.tried
    /\ pc' = "close"
    /\ UNCHANGED <<variant, limit, tries, popupFailed, scrolls, resp,
                   networkCandidates, output, exitCode, fnVars>>

\* browser.close resolves; the payload is built and writeFile called
CloseBrowser ==
    /\ pc = "close"
    /\ pc' = "write"
    /\ UNCHANGED <<variant, limit, tries, popupFailed, scrolls, resp,
                   networkCandidates, tried, extracted, doc, output, exitCode,
                   fnVars>>

\* the reviews of the payload: net slices extracted to LIMIT, the DOM scripts
\* take what page.evaluate returned
finalReviews(v, ex, lim) == IF v = "net" THEN slice(ex, lim) ELSE ex

\* writeFile resolves
WriteFile ==
    /\ pc = "write"
    /\ output' = [written |-> TRUE,
                  reviews |-> outputReviews(finalReviews(variant, extracted, limit))]
    /\ pc' = "done"
    /\ UNCHANGED <<variant, limit, tries, popupFailed, scrolls, resp,
                   networkCandidates, tried, extracted, doc, exitCode, fnVars>>

\* the page is open and the handler registered
BrowserOpen ==
    /\ variant = "net"
    /\ pc \in {"goto", "wait1", "popups", "scroll", "wait2", "evaluate", "close"}

\* a response arrives and passes the content-type and status tests: the
\* callback awaits res.json()
Receive(r) ==
    /\ BrowserOpen
    /\ resp[r] = "idle"
    /\ resp' = [resp EXCEPT ![r] = "parsing"]
    /\ UNCHANGED <<mainVars, networkCandidates, fnVars>>

\* a response arrives and is not JSON, or not 2xx, or reading it throws
ReceiveSkips(r) ==
    /\ BrowserOpen
    /\ resp[r] = "idle"
    /\ resp' = [resp EXCEPT ![r] = "dropped"]
    /\ UNCHANGED <<mainVars, networkCandidates, fnVars>>

\* res.json() resolves with a body: the callback pushes it
ParsedPush(r) ==
    /\ BrowserOpen
    /\ resp[r] = "parsing"
    /\ \E data \in RunPayloads :
           networkCandidates' = Append(networkCandidates, data)
    /\ resp' = [resp EXCEPT ![r] = "pushed"]
    /\ UNCHANGED <<mainVars, fnVars>>

\* res.json() rejects (caught, null) or resolves with a falsy body
ParsedNull(r) ==
    /\ BrowserOpen
    /\ resp[r] = "parsing"
    /\ resp' = [resp EXCEPT ![r] = "dropped"]
    /\ UNCHANGED <<mainVars, networkCandidates, fnVars>>

Response == \E r \in 1..MaxResponses :
    Receive(r) \/ ReceiveSkips(r) \/ ParsedPush(r) \/ ParsedNull(r)

EvaluateRun == Evaluate(RunDocs)

\* the steps of main()
MainNext ==
    \/ Goto
    \/ GotoFails
    \/ Wait1
    \/ DismissPopup
    \/ DismissPopupThrows
    \/ Scroll
    \/ ScanNetwork
    \/ EvaluateRun
    \/ CloseBrowser
    \/ WriteFile

Next == MainNext \/ Response

Spec == Init /\ [][Next]_vars

-----------------------------------------------------------------------------
(* The runs from the point where extraction starts, for every limit: net is *)
(* about to scan the payloads captured, the DOM scripts await page.evaluate *)

ExtractInit ==
    /\ variant \in Variants
    /\ limit \in Limits
    /\ pc = IF variant = "net" THEN "wait2" ELSE "evaluate"
    /\ tries = PopupTries
    /\ popupFailed = {}
    /\ scrolls = ScrollCount(variant)
    /\ networkCandidates \in IF variant = "net" THEN ExtractBuffers ELSE {<<>>}
    /\ resp = [r \in 1..MaxResponses |->
                  IF r <= Len(networkCandidates) THEN "pushed"
                  ELSE IF variant = "net" THEN "dropped" ELSE "idle"]
    /\ tried = <<>>
    /\ extracted = <<>>
    /\ doc = <<>>
    /\ output = NoOutput
    /\ exitCode = 0
    /\ call = "none"
    /\ input = NullV
    /\ result = NullV

EvaluateAll == Evaluate(AllDocs)

ExtractNext ==
    \/ ScanNetwork
    \/ EvaluateAll
    \/ CloseBrowser
    \/ WriteFile

SpecExtract == ExtractInit /\ [][ExtractNext]_vars

-----------------------------------------------------------------------------
(* The functions of fetch-whatnot-reviews.mjs called on their own *)

FnInit ==
    /\ variant = "net"
    /\ limit = LIMIT
    /\ pc = "idle"
    /\ tries = 0
    /\ popupFailed = {}
    /\ scrolls = 0
    /\ resp = [r \in 1..MaxResponses |-> "idle"]
    /\ networkCandidates = <<>>
    /\ tried = <<>>
    /\ extracted = <<>>
    /\ doc = <<>>
    /\ output = NoOutput
    /\ exitCode = 0
    /\ call = "none"
    /\ input = NullV
    /\ result = NullV

CallDedupe ==
    /\ call = "none"
    /\ \E xs \in DedupeInputs :
         /\ input' = xs
         /\ result' = dedupe(xs)
    /\ call' = "dedupe"
    /\ UNCHANGED <<mainVars, resp, networkCandidates>>

CallNormalize ==
    /\ call = "none"
    /\ \E item \in NormalizeInputs :
         /\ input' = item
         /\ result' = normalizeReview(item)
    /\ call' = "normalizeReview"
    /\ UNCHANGED <<mainVars, resp, networkCandidates>>

CallScan ==
    /\ call = "none"
    /\ \E node \in ScanInputs :
         /\ input' = node
         /\ result' = findReviewItemsDeep(node, <<>>)
    /\ call' = "findReviewItemsDeep"
    /\ UNCHANGED <<mainVars, resp, networkCandidates>>

FnNext == CallDedupe \/ CallNormalize \/ CallScan

SpecFn == FnInit /\ [][FnNext]_vars

-----------------------------------------------------------------------------
(* Properties *)

\* extraction is over: main() holds the records it will write
Extracting == pc \in {"close", "write", "done"}

Last(xs) == xs[Len(xs)]

Range(xs) == {xs[i] : i \in 1..Len(xs)}

Count(xs, x) == Cardinality({i \in 1..Len(xs) : xs[i] = x})

\* the records page.evaluate returned, if it ran
DomRecords ==
    IF Extracting /\ Last(tried).strategy # "network" THEN extracted ELSE <<>>

\* C1: the result set handed to the output document holds at most limit
\* records, for every limit (0 included), whichever strategy produced the
\* records and however many were collected.
C1_AtMostLimit == output.written => Len(output.reviews) <= limit

\* the network scan collected NetCap + 1 records, of which limit were written
C1_Truncated ==
    /\ output.written
    /\ limit > 0
    /\ tried[1].strategy = "network"
    /\ tried[1].collected = NetCap + 1
    /\ Len(output.reviews) = limit

\* a reviewer of 3 to 25 characters from [A-Za-z0-9_]
IsHandle(s) == Len(s) \in 3..25 /\ \A i \in 1..Len(s) : IsWordAt(s, i)

ValidRecord(r) ==
    /\ r.rating.t = "num"
    /\ r.rating.n \in 0..50
    /\ IsHandle(r.reviewer)
    /\ Len(r.text) >= 10

\* C2: every record of a written result set has a rating from 0.0 to 5.0, a
\* reviewer of 3 to 25 characters from [A-Za-z0-9_] and a text of at least 10
\* characters.
C2_ValidRecords ==
    output.written =>
        \A i \in 1..Len(output.reviews) : ValidRecord(output.reviews[i])

C5_BodyOnly ==
    (Extracting /\ variant = "anchor" /\ doc = <<CardBob>> /\ limit = LIMIT) =>
        extracted = <<Review("bob_the_builder", Num(48),
                             "Fast shipment and great packaging")>>

\* C8: once the scan has iterated the capture buffer, the buffer holds what
\* the scan saw: nothing is appended at or after the scan.
C8_ScanSeesAll ==
    (variant = "net" /\ tried # <<>>) =>
        Len(networkCandidates) = tried[1].candidates

\* C9: no record a DOM strategy returned holds a noise phrase or the
\* aggregate summary.
C9_NoNoiseRecords ==
    \A i \in 1..Len(DomRecords) :
        ~isNoise(DomRecords[i].text) /\ ~isSummary(DomRecords[i].text)

\* the ranks of the positions of main(), in program order
Rank(p) ==
    CASE p = "goto" -> 0
      [] p = "wait1" -> 1
      [] p = "popups" -> 2
      [] p = "scroll" -> 3
      [] p = "wait2" -> 4
      [] p = "evaluate" -> 5
      [] p = "close" -> 6
      [] p = "write" -> 7
      [] OTHER -> 8

\* what holds in every state of a run whose best-effort steps may fail
C10_Safe ==
    /\ exitCode # 0 =>
           pc = "failed" /\ exitCode = 1 /\ tries = 0 /\ tried = <<>>
    /\ pc = "failed" => exitCode = 1
    /\ pc = "failed" => ~output.written
    /\ Rank(pc) >= 3 /\ pc # "failed" => tries = PopupTries
    /\ popupFailed \subseteq 1..tries
    /\ Len(networkCandidates) =
           Cardinality({r \in 1..MaxResponses : resp[r] = "pushed"})
    /\ pc = "done" => output.written /\ exitCode = 0

\* what holds of every step: main() never goes back, makes each popup attempt
\* and each scroll once, goes on after a popup attempt as it would had the
\* attempt not thrown, changes the exit code only where navigation rejects,
\* and writes once
C10_Step ==
    /\ Rank(pc') >= Rank(pc)
    /\ tries' \in {tries, tries + 1}
    /\ tries' <= PopupTries
    /\ scrolls' \in {scrolls, scrolls + 1}
    /\ scrolls' <= ScrollCount(variant)
    /\ (pc = "popups" /\ tries' # tries) =>
           (pc' = AfterTry(tries') /\ exitCode' = 0)
    /\ pc # "goto" => exitCode' = exitCode
    /\ output.written => output' = output

\* C10: a popup attempt that throws and a response that cannot be read are
\* absorbed: every popup attempt is still made, every readable response is
\* still appended, the run goes on as if nothing had failed and ends, when it
\* ends, with a written document and exit code 0; a navigation that rejects
\* ends the run with exit code 1 and nothing written; no step is retried.
C10_Absorbed == []C10_Safe /\ [][C10_Step]_vars

\* a run that wrote its document although popup attempts threw and a
\* response was dropped, another response having been appended
C10_WroteDespiteFailures ==
    /\ pc = "done"
    /\ output.written
    /\ popupFailed = {1, 3}
    /\ \E r \in 1..MaxResponses : resp[r] = "dropped"
    /\ \E r \in 1..MaxResponses : resp[r] = "pushed"

\* xs without the elements that equal an earlier one
FirstOccurrences(xs) ==
    Flatten([i \in 1..Len(xs) |->
                IF \E j \in 1..(i - 1) : xs[j] = xs[i] THEN <<>> ELSE <<xs[i]>>],
            1, Len(xs))

\* C4: dedupe returns the first occurrence of each distinct (reviewer,
\* rating, text) triple, in input order, and leaves its own output unchanged.
C4_ExactTriple ==
    call = "dedupe" =>
        /\ result = FirstOccurrences(input)
        /\ dedupe(result) = result

\* the first string among o.username, o.name, o.handle of a sub-object o
SubName(o) ==
    IF ~isObject(o) THEN NullV
    ELSE IF Prop(o, "username").t = "str" THEN Prop(o, "username")
    ELSE IF Prop(o, "name").t = "str" THEN Prop(o, "name")
    ELSE IF Prop(o, "handle").t = "str" THEN Prop(o, "handle")
    ELSE NullV

\* the first such string of item.user, item.buyer, item.reviewer
NestedName(item) ==
    IF SubName(Prop(item, "user")) # NullV THEN SubName(Prop(item, "user"))
    ELSE IF SubName(Prop(item, "buyer")) # NullV THEN SubName(Prop(item, "buyer"))
    ELSE SubName(Prop(item, "reviewer"))

\* C6: an item without a top-level string reviewer or username, with a
\* user, buyer or reviewer sub-object that carries a string username, name or
\* handle, gets that string, cleaned, as its reviewer.
C6_NestedReviewer ==
    ( /\ call = "normalizeReview"
      /\ Prop(input, "reviewer").t # "str"
      /\ Prop(input, "username").t # "str"
      /\ NestedName(input) # NullV )
        => result.reviewer = clean(NestedName(input).s)

\* every array element of the tree, at any depth
RECURSIVE ArrayElements(_)
ArrayElements(node) ==
    IF node.t = "arr"
    THEN node.items
             \o Flatten([i \in 1..Len(node.items) |-> ArrayElements(node.items[i])],
                        1, Len(node.items))
    ELSE IF node.t = "obj"
    THEN Flatten([i \in 1..Len(node.kv) |-> ArrayElements(node.kv[i].v)],
                 1, Len(node.kv))
    ELSE <<>>

\* item has a key that, in lower case, is one of exact or contains one of parts
KeyHas(item, exact, parts) ==
    \E i \in 1..Len(item.kv) :
        \/ toLowerCase(item.kv[i].k) \in exact
        \/ \E p \in parts : includes(toLowerCase(item.kv[i].k), p)

\* an object with a key that is rating, stars or score or contains rating, a
\* key that is text, message, comment or review or contains text, message or
\* comment, and a key that is username, reviewer, buyer or user or contains
\* user or buyer
Qualifies(item) ==
    /\ item.t = "obj"
    /\ KeyHas(item, {"rating", "stars", "score"}, {"rating"})
    /\ KeyHas(item, {"text", "message", "comment", "review"},
              {"text", "message", "comment"})
    /\ KeyHas(item, {"username", "reviewer", "buyer", "user"}, {"user", "buyer"})

\* an object with a key that equals or contains a term of each kind
QualifiesAnyTerm(item) ==
    /\ item.t = "obj"
    /\ KeyHas(item, {}, {"rating", "stars", "score"})
    /\ KeyHas(item, {}, {"text", "message", "comment", "review"})
    /\ KeyHas(item, {}, {"username", "reviewer", "buyer", "user"})

\* xs and ys hold the same elements the same number of times
SameElements(xs, ys) ==
    \A x \in Range(xs) \cup Range(ys) : Count(xs, x) = Count(ys, x)

\* C7, as the scanner behaves: it returns exactly the array elements, at any
\* depth, that are objects with (in lower case) a key that is rating, stars or
\* score or contains rating, a key that is text, message, comment or review or
\* contains text, message or comment, and a key that is username, reviewer,
\* buyer or user or contains user or buyer; each as often as it occurs.
C7_ScanExact ==
    call = "findReviewItemsDeep" =>
        SameElements(result, SelectSeq(ArrayElements(input), Qualifies))

\* one of three array elements under two objects is returned, on the
\* strength of keys that contain rating, text and buyer
C7_ContainsKeys ==
    /\ call = "findReviewItemsDeep"
    /\ Len(ArrayElements(input)) = 3
    /\ Len(result) = 1
    /\ Prop(result[1], "avgRating") # Undefined
    /\ Prop(result[1], "commentText") # Undefined
    /\ Prop(result[1], "buyerId") # Undefined

\* C7, as stated: the elements returned are those with a key that equals or
\* contains one of rating/stars/score, one of text/message/comment/review and
\* one of username/reviewer/buyer/user.
C7_AnyTerm ==
    call = "findReviewItemsDeep" =>
        SameElements(result, SelectSeq(ArrayElements(input), QualifiesAnyTerm))

====
